---------------------------- MODULE Spec2Model ----------------------------
(***************************************************************************)
(* A model of skinniderlab/tools: the isotope registry (IsotopeDB,         *)
(* Element, Isotope), the compound model (Compound), the formula and      *)
(* adduct parsers of tools.utils and the isotope-pattern search           *)
(* Compound.isopattern.                                                    *)
(*                                                                         *)
(* Numbers.  Python floats are modelled as exact rationals <<n, d>> with   *)
(* d > 0 kept in lowest terms; <<0, 0>> is NaN.  Masses are integers in    *)
(* units of 1e-3 Da.  Strings are sequences of one-character strings,     *)
(* a Python dict is the sequence of its <<key, value>> pairs in insertion  *)
(* order.                                                                  *)
(***************************************************************************)
EXTENDS Integers, Sequences, FiniteSets, TLC

VARIABLES
    pc,              \* position of the modelled call
    formula,         \* Compound.__init__: the atom-count dict given
    compound,        \* the constructed Compound (NoCompound before / on failure)
    raised,          \* the exception that left the call ("none" when none did)
    charge,          \* isopattern argument
    abundance_limit, \* isopattern argument (a rational)
    max_iter,        \* isopattern argument
    scale,           \* isopattern argument: "abs" | "rel"
    peaks,           \* isopattern local: the data frame, a sequence of rows
    iteration,       \* isopattern local
    n_tries,         \* isopattern local
    result,          \* what the call returned
    previous,        \* the pattern the last isopattern call with the same
                     \* arguments returned on this compound (NoResult: none)
    adduct,          \* get_updated_compound / modify_formula_dict argument
    text,            \* the string given to a parser
    parsed,          \* what the parser returned
    shape            \* the structure the parser's input was written from

vars == <<pc, formula, compound, raised, charge, abundance_limit, max_iter,
          scale, peaks, iteration, n_tries, result, previous, adduct, text,
          parsed, shape>>

--------------------------------------------------------------------------
(* Generic helpers *)

Range(s) == {s[i] : i \in 1..Len(s)}

RECURSIVE SeqSum(_)
SeqSum(s) == IF s = <<>> THEN 0 ELSE Head(s) + SeqSum(Tail(s))

RECURSIVE Flatten(_)
Flatten(ss) == IF ss = <<>> THEN <<>> ELSE Head(ss) \o Flatten(Tail(ss))

RECURSIVE SelectSeqIdx(_, _, _)
\* the indices i (ascending) of s with Keep[i]
SelectSeqIdx(s, Keep, i) ==
    IF i > Len(s) THEN <<>>
    ELSE (IF Keep[i] THEN <<s[i]>> ELSE <<>>) \o SelectSeqIdx(s, Keep, i + 1)

Abs(x) == IF x < 0 THEN -x ELSE x

RECURSIVE GCD(_, _)
GCD(a, b) == IF b = 0 THEN Abs(a) ELSE GCD(Abs(b), Abs(a) % Abs(b))

RECURSIVE Pow(_, _)
Pow(b, e) == IF e = 0 THEN 1 ELSE b * Pow(b, e - 1)

--------------------------------------------------------------------------
(* Rationals standing for Python / numpy floats *)

NaN == <<0, 0>>

IsNaN(r) == r[2] = 0

\* n/d in lowest terms with a positive denominator; x/0 is NaN
Rat(n, d) ==
    IF d = 0 THEN NaN
    ELSE LET g == GCD(n, d)
             s == IF d < 0 THEN -1 ELSE 1
         IN  <<s * (n \div g), s * (d \div g)>>

RInt(k) == <<k, 1>>

LCM(a, b) == (a \div GCD(a, b)) * b

\* a * b, cancelling across before multiplying
RMul(a, b) ==
    IF IsNaN(a) \/ IsNaN(b) THEN NaN
    ELSE LET g1 == GCD(a[1], b[2])
             g2 == GCD(b[1], a[2])
         IN  Rat((a[1] \div g1) * (b[1] \div g2), (a[2] \div g2) * (b[2] \div g1))

\* a / b; numpy gives NaN for 0/0 (a nonzero a over 0 does not arise)
RDiv(a, b) ==
    IF IsNaN(a) \/ IsNaN(b) \/ b[1] = 0 THEN NaN
    ELSE RMul(a, IF b[1] < 0 THEN <<-b[2], -b[1]>> ELSE <<b[2], b[1]>>)

RSub(a, b) ==
    IF IsNaN(a) \/ IsNaN(b) THEN NaN
    ELSE LET l == LCM(a[2], b[2])
         IN  Rat(a[1] * (l \div a[2]) - b[1] * (l \div b[2]), l)

\* a < b; every comparison with NaN is False
RLess(a, b) ==
    IF IsNaN(a) \/ IsNaN(b) THEN FALSE
    ELSE LET l == LCM(a[2], b[2])
         IN  a[1] * (l \div a[2]) < b[1] * (l \div b[2])

RLeq(a, b) == ~IsNaN(a) /\ ~IsNaN(b) /\ ~RLess(b, a)

\* b ** e for an integer e (a negative e gives the reciprocal power)
RPow(b, e) ==
    IF e >= 0 THEN Rat(Pow(b[1], e), Pow(b[2], e))
    ELSE Rat(Pow(b[2], -e), Pow(b[1], -e))

\* round(r, places): to the nearest multiple of 10^-places, halves to even
RRound(r, places) ==
    IF IsNaN(r) THEN NaN
    ELSE LET p == Pow(10, places)
             n == r[1] * p
             q == n \div r[2]
             m == 2 * (n % r[2])
             k == IF m > r[2] \/ (m = r[2] /\ q % 2 = 1) THEN q + 1 ELSE q
         IN  Rat(k, p)

--------------------------------------------------------------------------
(* Python dicts: sequences of <<key, value>> pairs, keys unique *)

DictHas(d, k) == \E i \in 1..Len(d) : d[i][1] = k

DictGet(d, k, default) ==
    IF DictHas(d, k) THEN d[CHOOSE i \in 1..Len(d) : d[i][1] = k][2] ELSE default

\* d[k] = v: an existing key keeps its place, a new key goes last
DictPut(d, k, v) ==
    IF DictHas(d, k)
    THEN [i \in 1..Len(d) |-> IF d[i][1] = k THEN <<k, v>> ELSE d[i]]
    ELSE Append(d, <<k, v>>)

RECURSIVE DictUpdate(_, _)
\* d | e
DictUpdate(d, e) ==
    IF e = <<>> THEN d ELSE DictUpdate(DictPut(d, Head(e)[1], Head(e)[2]), Tail(e))

DictKeys(d) == [i \in 1..Len(d) |-> d[i][1]]

DictValues(d) == [i \in 1..Len(d) |-> d[i][2]]

\* An optional value: None, or Some(v)
None == [isNone |-> TRUE, val |-> <<>>]

Some(v) == [isNone |-> FALSE, val |-> v]

--------------------------------------------------------------------------
(* Characters and integers in text *)

Digits == {"0", "1", "2", "3", "4", "5", "6", "7", "8", "9"}

Upper == {"A", "B", "C", "D", "E", "F", "G", "H", "I", "J", "K", "L", "M",
          "N", "O", "P", "Q", "R", "S", "T", "U", "V", "W", "X", "Y", "Z"}

Lower == {"a", "b", "c", "d", "e", "f", "g", "h", "i", "j", "k", "l", "m",
          "n", "o", "p", "q", "r", "s", "t", "u", "v", "w", "x", "y", "z"}

Alpha == Upper \cup Lower

DigitChars == <<"0", "1", "2", "3", "4", "5", "6", "7", "8", "9">>

DigitVal(c) == (CHOOSE i \in 1..10 : DigitChars[i] = c) - 1

RECURSIVE NatToStr(_)
NatToStr(n) ==
    IF n < 10 THEN <<DigitChars[n + 1]>>
    ELSE NatToStr(n \div 10) \o <<DigitChars[(n % 10) + 1]>>

\* str(v) / f"{v}" of an int
IntToStr(v) == IF v < 0 THEN <<"-">> \o NatToStr(-v) ELSE NatToStr(v)

RECURSIVE DigitsToNat(_, _)
DigitsToNat(s, acc) ==
    IF s = <<>> THEN acc ELSE DigitsToNat(Tail(s), 10 * acc + DigitVal(Head(s)))

\* int(s) succeeds: an optional sign and at least one digit (s holds no
\* blanks or underscores)
IsIntLiteral(s) ==
    LET body == IF s # <<>> /\ Head(s) \in {"+", "-"} THEN Tail(s) ELSE s
    IN  body # <<>> /\ \A i \in 1..Len(body) : body[i] \in Digits

\* int(s) for an s with IsIntLiteral(s)
StrToInt(s) ==
    IF Head(s) = "-" THEN -DigitsToNat(Tail(s), 0)
    ELSE IF Head(s) = "+" THEN DigitsToNat(Tail(s), 0)
    ELSE DigitsToNat(s, 0)

--------------------------------------------------------------------------
(* The isotope registry: IsotopeDB, Element, Isotope *)

\* masses are held in units of 1e-3 Da

Isotope(symbol, mass, num, den) ==
    [symbol |-> symbol, mass |-> mass, abundance |-> Rat(num, den)]

\* The reference table IsotopeDB._parse_file loaded: one Element per symbol,
\* in groupby's (sorted) order.  F, K and Na have a single isotope, O has
\* three; K and Na are not on the whitelist.
Registry ==
    << [symbol |-> <<"B", "r">>,
        isotopes |-> {Isotope(<<"7", "9", "B", "r">>, 78918, 6, 10),
                      Isotope(<<"8", "1", "B", "r">>, 80916, 4, 10)}],
       [symbol |-> <<"C">>,
        isotopes |-> {Isotope(<<"1", "2", "C">>, 12000, 3, 4),
                      Isotope(<<"1", "3", "C">>, 13003, 1, 4)}],
       [symbol |-> <<"F">>,
        isotopes |-> {Isotope(<<"1", "9", "F">>, 18998, 1, 1)}],
       [symbol |-> <<"H">>,
        isotopes |-> {Isotope(<<"1", "H">>, 1008, 3, 4),
                      Isotope(<<"2", "H">>, 2014, 1, 4)}],
       [symbol |-> <<"K">>,
        isotopes |-> {Isotope(<<"3", "9", "K">>, 38964, 1, 1)}],
       [symbol |-> <<"N">>,
        isotopes |-> {Isotope(<<"1", "4", "N">>, 14003, 3, 4),
                      Isotope(<<"1", "5", "N">>, 15000, 1, 4)}],
       [symbol |-> <<"N", "a">>,
        isotopes |-> {Isotope(<<"2", "3", "N", "a">>, 22990, 1, 1)}],
       [symbol |-> <<"O">>,
        isotopes |-> {Isotope(<<"1", "6", "O">>, 15995, 5, 8),
                      Isotope(<<"1", "7", "O">>, 16999, 1, 8),
                      Isotope(<<"1", "8", "O">>, 17999, 2, 8)}] >>

RECURSIVE SortedIsotopes(_)
\* sorted(self.isotopes): ascending by abundance (Isotope.__lt__); the table
\* holds no two isotopes of one element with the same abundance
SortedIsotopes(S) ==
    IF S = {} THEN <<>>
    ELSE LET lo == CHOOSE x \in S : \A y \in S : ~RLess(y.abundance, x.abundance)
         IN  <<lo>> \o SortedIsotopes(S \ {lo})

\* Element.monoisotope
monoisotope(element) ==
    LET s == SortedIsotopes(element.isotopes) IN s[Len(s)]

\* Element.other_isotopes
other_isotopes(element) ==
    LET s == SortedIsotopes(element.isotopes) IN SubSeq(s, 1, Len(s) - 1)

\* `element == item or item in element` for a symbol string item
ElementMatches(element, item) ==
    \/ element.symbol = item
    \/ \E iso \in element.isotopes : iso.symbol = item

\* every symbol IsotopeDB.__getitem__ resolves
KnownSymbols ==
    UNION {{Registry[i].symbol} \cup {iso.symbol : iso \in Registry[i].isotopes}
           : i \in 1..Len(Registry)}

\* IsotopeDB.__getitem__ finds an element (otherwise it raises KeyError)
InRegistry(item) == item \in KnownSymbols

\* IsotopeDB.__getitem__: the first element that matches
Lookup(item) ==
    Registry[CHOOSE i \in 1..Len(Registry) :
                /\ ElementMatches(Registry[i], item)
                /\ \A j \in 1..(i - 1) : ~ElementMatches(Registry[j], item)]

\* self.isotope_db[item].monoisotope, item an element's or an isotope's symbol
MonoisotopeOf == [sym \in KnownSymbols |-> monoisotope(Lookup(sym))]

\* self.isotope_db[item].other_isotopes
OtherIsotopesOf == [sym \in KnownSymbols |-> other_isotopes(Lookup(sym))]

\* self.isotope_db[item].symbol
ElementSymbolOf == [sym \in KnownSymbols |-> Lookup(sym).symbol]

--------------------------------------------------------------------------
(* Compound *)

VALID_ELEMENTS ==
    << <<"C">>, <<"H">>, <<"O">>, <<"N">>, <<"P">>, <<"S">>, <<"F">>,
       <<"C", "l">>, <<"B", "r">>, <<"I">> >>

\* the fields as Compound.__init__ sets them before anything is computed
NoCompound ==
    [element_count |-> <<>>, formula |-> <<>>, monomass |-> 0,
     monoabund |-> RInt(1), monoisos |-> <<>>, nonmonoisos |-> <<>>]

RECURSIVE ResolveKeys(_, _)
\* {self.isotope_db[k]: v for k, v in items}: the Element (its symbol) is
\* the key, so two keys of one element share an entry
ResolveKeys(items, acc) ==
    IF items = <<>> THEN acc
    ELSE ResolveKeys(Tail(items),
                     DictPut(acc, ElementSymbolOf[Head(items)[1]], Head(items)[2]))

\* the element_count of order_elements, for a dict whose keys are registered
ElementCountOf(formula_dict) ==
    LET order  == [i \in 1..Len(VALID_ELEMENTS) |-> <<VALID_ELEMENTS[i], 0>>]
        merged == DictUpdate(order, formula_dict)
    IN  ResolveKeys(SelectSeq(merged, LAMBDA kv : kv[2] # 0), <<>>)

\* the formula string of order_elements
FormulaOf(element_count) ==
    Flatten([i \in 1..Len(element_count) |->
                element_count[i][1] \o
                (IF element_count[i][2] = 1 THEN <<>>
                 ELSE IntToStr(element_count[i][2]))])

\* Compound.order_elements: KeyError when a symbol with a non-zero count is
\* not in the registry
order_elements(formula_dict) ==
    LET order  == [i \in 1..Len(VALID_ELEMENTS) |-> <<VALID_ELEMENTS[i], 0>>]
        merged == DictUpdate(order, formula_dict)
        kept   == SelectSeq(merged, LAMBDA kv : kv[2] # 0)
    IN  IF \E i \in 1..Len(kept) : ~InRegistry(kept[i][1])
        THEN [exc |-> "KeyError", element_count |-> <<>>, formula |-> <<>>]
        ELSE [exc |-> "none",
              element_count |-> ElementCountOf(formula_dict),
              formula |-> FormulaOf(ElementCountOf(formula_dict))]

RECURSIVE MonoMass(_)
MonoMass(element_count) ==
    IF element_count = <<>> THEN 0
    ELSE MonoisotopeOf[Head(element_count)[1]].mass * Head(element_count)[2]
         + MonoMass(Tail(element_count))

RECURSIVE MonoAbund(_)
MonoAbund(element_count) ==
    IF element_count = <<>> THEN RInt(1)
    ELSE RMul(RPow(MonoisotopeOf[Head(element_count)[1]].abundance,
                   Head(element_count)[2]),
              MonoAbund(Tail(element_count)))

\* a check that rejects only a monomass below 0
MassCheckFails_Negative(monomass) == monomass < 0

\* Compound._compute_mass_and_abundance raises for a monomass of 0
MassCheckFails(monomass) == monomass = 0

\* Compound._parse_isotopes
MonoIsos(element_count) ==
    [i \in 1..Len(element_count) |-> MonoisotopeOf[element_count[i][1]]]

NonMonoIsos(element_count) ==
    Flatten([i \in 1..Len(element_count) |->
                OtherIsotopesOf[element_count[i][1]]])

\* Compound.__init__(formula, isotope_db), formula an optional dict:
\* [exc, c] with exc the exception raised ("none": c is the compound)
Construct(f) ==
    IF f.isNone
    THEN [exc |-> "TypeError", c |-> NoCompound]   \* order | None
    ELSE LET o == order_elements(f.val)
         IN  IF o.exc # "none" THEN [exc |-> o.exc, c |-> NoCompound]
             ELSE IF MassCheckFails(MonoMass(o.element_count))
             THEN [exc |-> "Exception", c |-> NoCompound]
             ELSE [exc |-> "none",
                   c |-> [element_count |-> o.element_count,
                          formula |-> o.formula,
                          monomass |-> MonoMass(o.element_count),
                          monoabund |-> MonoAbund(o.element_count),
                          monoisos |-> MonoIsos(o.element_count),
                          nonmonoisos |-> NonMonoIsos(o.element_count)]]

--------------------------------------------------------------------------
(* Compound.isopattern *)

\* the isotope columns of the frame: nonmonoisos, then monoisos
Cols(c) == {iso.symbol : iso \in Range(c.nonmonoisos) \cup Range(c.monoisos)}

IsoOf(c, sym) ==
    CHOOSE iso \in Range(c.nonmonoisos) \cup Range(c.monoisos) : iso.symbol = sym

\* the target column of a row without one (NaN)
NoTarget == <<>>

\* the count of the monoisotope of element_count's i-th element
RootCounts(c) ==
    [sym \in Cols(c) |->
        IF \E i \in 1..Len(c.monoisos) : c.monoisos[i].symbol = sym
        THEN c.element_count[CHOOSE i \in 1..Len(c.monoisos) :
                                c.monoisos[i].symbol = sym][2]
        ELSE 0]

\* the frame before the loop: the root row and one row per non-monoisotope
InitialPeaks(c) ==
    LET n == Len(c.nonmonoisos)
        single == Len(c.monoisos) = 1 /\ c.monoisos[1].abundance = RInt(1)
    IN  [i \in 1..(n + 1) |->
            [cnt |-> RootCounts(c),
             mass |-> c.monomass,
             abundance |-> c.monoabund,
             generation |-> 0,
             stop |-> IF i = 1 /\ single THEN 1 ELSE 0,
             noniso |-> IF i = 1 THEN NoTarget ELSE c.nonmonoisos[i - 1].symbol]]

\* a test that finds no abundance below the limit
BelowLimit_Never(abundance, limit) == FALSE

\* row.abundance < limit after a substitution
BelowLimit(abundance, limit) == RLess(abundance, limit)

\* the substitution has no monoisotope atom left to convert
NothingLeft(count) == count = 0

\* a re-weighting that leaves out the division by the new count of the
\* target
NewAbundance_NoDivision(abundance, nonmono, monoiso, cnt) ==
    RMul(abundance,
         RMul(nonmono.abundance,
              RDiv(RInt(cnt[monoiso.symbol]), monoiso.abundance)))

\* the re-weighting of isotope_permutation
NewAbundance(abundance, nonmono, monoiso, cnt) ==
    RMul(abundance,
         RMul(RDiv(nonmono.abundance, RInt(cnt[nonmono.symbol] + 1)),
              RDiv(RInt(cnt[monoiso.symbol]), monoiso.abundance)))

\* a mass update that adds the target's mass and forgets to take the
\* monoisotope's
NewMass_MonoKept(mass, nonmono, monoiso) == mass + nonmono.mass

\* row.mass - monoiso.mass + nonmono.mass
NewMass(mass, nonmono, monoiso) == mass - monoiso.mass + nonmono.mass

\* isotope_permutation(row, limit): None for the all-NA row that dropna removes
isotope_permutation(c, row, limit) ==
    IF row.stop = 1 THEN Some(row)
    ELSE IF row.noniso = NoTarget THEN Some(row)
    ELSE LET nonmono == IsoOf(c, row.noniso)
             monoiso == MonoisotopeOf[nonmono.symbol]
             abund   == NewAbundance(row.abundance, nonmono, monoiso, row.cnt)
         IN  IF NothingLeft(row.cnt[monoiso.symbol]) THEN None
             ELSE Some([cnt |-> [row.cnt EXCEPT ![monoiso.symbol] = @ - 1,
                                               ![nonmono.symbol] = @ + 1],
                        mass |-> NewMass(row.mass, nonmono, monoiso),
                        abundance |-> abund,
                        generation |-> row.generation + 1,
                        stop |-> IF BelowLimit(abund, limit) THEN 1 ELSE row.stop,
                        noniso |-> row.noniso])

\* peaks.apply(isotope_permutation, ...).dropna(how="all", ignore_index=True)
ApplyAndDrop(c, rows, limit) ==
    LET out == [i \in 1..Len(rows) |-> isotope_permutation(c, rows[i], limit)]
    IN  Flatten([i \in 1..Len(rows) |->
                    IF out[i].isNone THEN <<>> ELSE <<out[i].val>>])

\* the columns duplicated() compares; the masses are multiples of 1e-3 Da,
\* which round(9) leaves as they are
DupKey(row) == <<row.cnt, row.mass, RRound(row.abundance, 3)>>

\* the rows of generation iteration + 1 that repeat an earlier one are dropped
DropDuplicates(rows, iteration_) ==
    LET dup == [i \in 1..Len(rows) |->
                   /\ rows[i].generation = iteration_ + 1
                   /\ \E j \in 1..(i - 1) :
                         /\ rows[j].generation = iteration_ + 1
                         /\ DupKey(rows[j]) = DupKey(rows[i])]
    IN  SelectSeqIdx(rows, [i \in 1..Len(rows) |-> ~dup[i]], 1)

\* the rows the next generation starts from
OverLimit(rows, iteration_) ==
    SelectSeq(rows, LAMBDA r : r.generation = iteration_ /\ r.stop = 0)

\* over_limit.explode(["noniso"]) after each row was given every target
Explode(c, rows) ==
    Flatten([i \in 1..Len(rows) |->
                [j \in 1..Len(c.nonmonoisos) |->
                    [rows[i] EXCEPT !.noniso = c.nonmonoisos[j].symbol]]])

\* pd.concat([peaks.assign(stop=1), over_limit])
FanOut(c, rows, iteration_) ==
    IF OverLimit(rows, iteration_) = <<>> THEN rows
    ELSE [i \in 1..Len(rows) |-> [rows[i] EXCEPT !.stop = 1]]
         \o Explode(c, OverLimit(rows, iteration_))

\* a loop condition that looks at the rows of every generation
LoopCondition_AnyGeneration(rows, iteration_, n_tries_, max_iter_) ==
    /\ \E i \in 1..Len(rows) : rows[i].stop = 0
    /\ n_tries_ < max_iter_

\* a loop condition that lets the count reach max_iter
LoopCondition_NotExceeded(rows, iteration_, n_tries_, max_iter_) ==
    /\ \E i \in 1..Len(rows) : rows[i].generation = iteration_ /\ rows[i].stop = 0
    /\ n_tries_ <= max_iter_

\* the loop's condition
LoopCondition(rows, iteration_, n_tries_, max_iter_) ==
    /\ \E i \in 1..Len(rows) : rows[i].generation = iteration_ /\ rows[i].stop = 0
    /\ n_tries_ < max_iter_

\* one pass of the loop: [peaks, iteration, n_tries]
LoopBody(c, rows, iteration_, limit) ==
    LET applied == ApplyAndDrop(c, rows, limit)
        deduped == IF iteration_ # 0 THEN DropDuplicates(applied, iteration_)
                   ELSE applied
    IN  [peaks |-> FanOut(c, deduped, iteration_ + 1),
         iteration |-> iteration_ + 1,
         n_tries |-> Len(deduped)]

\* the electron mass 5.486e-4 Da, in units of 1e-3 Da
ElectronMass == Rat(5486, 10000)

\* (mass - electron mass * charge) / abs(charge)
ToMz(mass, charge_) ==
    IF charge_ # 0
    THEN RDiv(RSub(RInt(mass), RMul(ElectronMass, RInt(charge_))), RInt(Abs(charge_)))
    ELSE RInt(mass)

\* Series.min() / Series.max(): NaN for an empty column
RMin(xs) ==
    IF xs = <<>> THEN NaN
    ELSE xs[CHOOSE i \in 1..Len(xs) : \A j \in 1..Len(xs) : ~RLess(xs[j], xs[i])]

RMax(xs) ==
    IF xs = <<>> THEN NaN
    ELSE xs[CHOOSE i \in 1..Len(xs) : \A j \in 1..Len(xs) : ~RLess(xs[i], xs[j])]

\* a scaling to percent of the maximum, without the shift by the minimum
Rescale_NoShift(abundance, lo, hi) ==
    RDiv(RMul(RInt(100), abundance), hi)

\* 100 * (abundance - min) / (max - min)
Rescale(abundance, lo, hi) ==
    RDiv(RMul(RInt(100), RSub(abundance, lo)), RSub(hi, lo))

\* peaks[peaks.abundance != 0]
NonZero(abundance) == abundance[1] # 0 \/ IsNaN(abundance)

\* an order by descending abundance whatever the scale
Before_ByAbundance(by, a, b) ==
    (~IsNaN(a.abundance) /\ IsNaN(b.abundance)) \/ RLess(b.abundance, a.abundance)

\* sort_values: row a goes before row b; NaN goes last
Before(by, a, b) ==
    IF by = "rel"
    THEN (~IsNaN(a.abundance) /\ IsNaN(b.abundance)) \/ RLess(b.abundance, a.abundance)
    ELSE RLess(a.mass, b.mass)

RECURSIVE Insert(_, _, _)
Insert(by, sorted, row) ==
    IF sorted = <<>> THEN <<row>>
    ELSE IF Before(by, row, Head(sorted)) THEN <<row>> \o sorted
    ELSE <<Head(sorted)>> \o Insert(by, Tail(sorted), row)

RECURSIVE SortValues(_, _, _)
\* sort_values(...).reset_index(drop=True); rows that compare equal keep
\* the order they had
SortValues(by, rows, acc) ==
    IF rows = <<>> THEN acc
    ELSE SortValues(by, Tail(rows), Insert(by, acc, Head(rows)))

\* the statements after the loop: the rows (mass, abundance, the isotope
\* counts and the charge) in the order returned
PostProcess(rows, charge_, scale_) ==
    LET kept   == SelectSeq(rows, LAMBDA r : NonZero(r.abundance))
        abunds == [i \in 1..Len(kept) |-> kept[i].abundance]
        lo     == RMin(abunds)
        hi     == RMax(abunds)
        out    == [i \in 1..Len(kept) |->
                      [cnt |-> kept[i].cnt,
                       mass |-> ToMz(kept[i].mass, charge_),
                       abundance |-> IF scale_ = "rel"
                                     THEN Rescale(kept[i].abundance, lo, hi)
                                     ELSE kept[i].abundance,
                       charge |-> charge_]]
    IN  SortValues(IF scale_ = "rel" THEN "rel" ELSE "abs", out, <<>>)

--------------------------------------------------------------------------
(* The inputs of the isotope-pattern runs *)

\* atoms in a generated compound
MaxAtoms == 3

\* max_iter runs over 0 .. MaxIter, and NoValve
MaxIter == 3

\* abundance_limit runs over 0, 1/10 .. MaxLimit/10
MaxLimit == 3

\* passes of the loop a run may take (no run comes near it)
MaxPasses == 8

\* the elements of the generated compounds
GeneratedSymbols == << <<"B", "r">>, <<"C">>, <<"F">>, <<"O">> >>

RECURSIVE CountDicts(_, _)
\* the dicts over the symbols syms (in that order) with positive counts
\* summing to at most atoms
CountDicts(syms, atoms) ==
    IF syms = <<>> THEN {<<>>}
    ELSE CountDicts(Tail(syms), atoms) \cup
         UNION {{<<<<Head(syms), k>>>> \o d : d \in CountDicts(Tail(syms), atoms - k)}
                : k \in 1..atoms}

\* compounds beyond the generated ones: Br5, Br2C2, a compound of two
\* single-isotope elements given with a zero count and in another order
\* than the whitelist's, and a count below zero
ExtraFormulas ==
    { << <<<<"B", "r">>, 5>> >>,
      << <<<<"B", "r">>, 2>>, <<<<"C">>, 2>> >>,
      << <<<<"N", "a">>, 1>>, <<<<"C">>, 0>>, <<<<"F">>, 1>> >>,
      << <<<<"O">>, 1>>, <<<<"C">>, -1>> >> }

IsoFormulas == (CountDicts(GeneratedSymbols, MaxAtoms) \ {<<>>}) \cup ExtraFormulas

Charges == {-2, 0, 1}

\* a max_iter no run of these compounds reaches
NoValve == 1000

MaxIters == (0..MaxIter) \cup {NoValve}

Limits == {Rat(k, 10) : k \in 0..MaxLimit}

Scales == {"abs", "rel"}

NoResult == <<>>

--------------------------------------------------------------------------
(* The calls *)

\* Compound(formula, isotope_db)
NewCompound ==
    /\ pc = "new"
    /\ \E r \in {Construct(formula)} :
           /\ raised' = r.exc
           /\ compound' = r.c
           /\ pc' = IF r.exc = "none" THEN "ready" ELSE "raised"
    /\ UNCHANGED <<formula, charge, abundance_limit, max_iter, scale, peaks,
                   iteration, n_tries, result, adduct, text, parsed, shape,
                   previous>>

\* compound.isopattern(charge, abundance_limit, max_iter, scale=...): up to
\* the loop
IsoCall(charge_, limit, max_iter_, scale_) ==
    /\ pc = "ready"
    /\ charge' = charge_
    /\ abundance_limit' = limit
    /\ max_iter' = max_iter_
    /\ scale' = scale_
    /\ peaks' = InitialPeaks(compound)
    /\ iteration' = 0
    /\ n_tries' = 0
    /\ pc' = "loop"
    /\ previous' = IF <<charge_, limit, max_iter_, scale_>>
                       = <<charge, abundance_limit, max_iter, scale>>
                    THEN previous
                    ELSE NoResult
    /\ UNCHANGED <<formula, compound, raised, result, adduct, text, parsed, shape>>

\* one pass of the while loop
IsoPass ==
    /\ pc = "loop"
    /\ iteration < MaxPasses
    /\ LoopCondition(peaks, iteration, n_tries, max_iter)
    /\ \E b \in {LoopBody(compound, peaks, iteration, abundance_limit)} :
           /\ peaks' = b.peaks
           /\ iteration' = b.iteration
           /\ n_tries' = b.n_tries
    /\ UNCHANGED <<pc, formula, compound, raised, charge, abundance_limit,
                   max_iter, scale, result, adduct, text, parsed, shape,
                   previous>>

\* the loop has ended: filter, convert, scale, sort and return
IsoReturn ==
    /\ pc = "loop"
    /\ ~LoopCondition(peaks, iteration, n_tries, max_iter)
    /\ result' = PostProcess(peaks, charge, scale)
    /\ pc' = "returned"
    /\ UNCHANGED <<formula, compound, raised, charge, abundance_limit, max_iter,
                   scale, peaks, iteration, n_tries, adduct, text, parsed, shape,
                   previous>>

InitIso ==
    /\ pc = "new"
    /\ formula \in {Some(f) : f \in IsoFormulas}
    /\ compound = NoCompound
    /\ raised = "none"
    /\ charge = 0
    /\ abundance_limit = RInt(0)
    /\ max_iter = 0
    /\ scale = "abs"
    /\ peaks = <<>>
    /\ iteration = 0
    /\ n_tries = 0
    /\ result = NoResult
    /\ previous = NoResult
    /\ adduct = <<>>
    /\ text = <<>>
    /\ parsed = None
    /\ shape = <<>>

NextIso ==
    \/ NewCompound
    \/ \E c \in Charges, l \in Limits, m \in MaxIters, s \in Scales : IsoCall(c, l, m, s)
    \/ IsoPass
    \/ IsoReturn

\* the isotope-pattern runs
SpecIso == InitIso /\ [][NextIso]_vars

\* the same, with the loop and the return never starved: the call is
\* synchronous
\* ENABLED <<IsoPass>>_vars and ENABLED <<IsoReturn>>_vars: each step changes
\* iteration or pc, so a step is possible exactly when its guard holds
PassEnabled ==
    /\ pc = "loop"
    /\ iteration < MaxPasses
    /\ LoopCondition(peaks, iteration, n_tries, max_iter)

ReturnEnabled ==
    /\ pc = "loop"
    /\ ~LoopCondition(peaks, iteration, n_tries, max_iter)

\* the interpreter keeps running a call it has started: weak fairness of the
\* pass and of the return, WF_vars(IsoPass) /\ WF_vars(IsoReturn), with
\* ENABLED written as the guards above
SpecIsoFair ==
    /\ SpecIso
    /\ ([]<>~PassEnabled \/ []<><<IsoPass>>_vars)
    /\ ([]<>~ReturnEnabled \/ []<><<IsoReturn>>_vars)

--------------------------------------------------------------------------
(* utils.py: the formula and adduct parsers, over strings as sequences of  *)
(* characters                                                              *)

\* the last index of the run of characters of `set` that starts at i
\* (i - 1 when s[i] is not in the set): a greedy [set]*
Span(s, i, set) ==
    CHOOSE j \in (i - 1)..Len(s) :
        /\ \A k \in i..j : s[k] \in set
        /\ j = Len(s) \/ s[j + 1] \notin set

\* the same for the characters not in `set`: a greedy [^set]*
SpanNot(s, i, set) ==
    CHOOSE j \in (i - 1)..Len(s) :
        /\ \A k \in i..j : s[k] \notin set
        /\ j = Len(s) \/ s[j + 1] \in set

\* "".join(filter(pred, s))
Filter(s, set) == SelectSeq(s, LAMBDA ch : ch \in set)

\* the table of shorthand names
compound_abbreviations ==
    << << <<"A", "C", "N">>, <<"C", "H", "3", "C", "N">> >>,
       << <<"D", "M", "S", "O">>, <<"(", "C", "H", "3", ")", "2", "S", "O">> >>,
       << <<"F", "A">>, <<"C", "H", "2", "O", "2">> >>,
       << <<"H", "A", "c">>, <<"C", "H", "3", "C", "O", "O", "H">> >>,
       << <<"T", "F", "A">>, <<"C", "F", "3", "C", "O", "2", "H">> >>,
       << <<"I", "s", "o", "P", "r", "o", "p">>,
          <<"C", "H", "3", "C", "H", "O", "H", "C", "H", "3">> >> >>

RECURSIVE aggregate_dict_values(_, _)
\* dict2[k] = dict2.get(k, 0) + v for every item of dict1; dict2 is returned
aggregate_dict_values(dict1, dict2) ==
    IF dict1 = <<>> THEN dict2
    ELSE aggregate_dict_values(
             Tail(dict1),
             DictPut(dict2, Head(dict1)[1],
                     DictGet(dict2, Head(dict1)[1], 0) + Head(dict1)[2]))

\* _get_element_count(element, multiplier): a one-entry dict
_get_element_count(element, multiplier) ==
    LET characters == Filter(element, Alpha)
        integer    == Filter(element, Digits)
    IN  << <<characters,
             (IF integer = <<>> THEN 1 ELSE DigitsToNat(integer, 0)) * multiplier>> >>

\* re.match(r"^(\d+)(.*)", formula): [multiplier, formula]
LeadingMultiplier(formula_) ==
    LET j == Span(formula_, 1, Digits)
    IN  IF j >= 1
        THEN [atom_count_multiplier |-> DigitsToNat(SubSeq(formula_, 1, j), 0),
              formula |-> SubSeq(formula_, j + 1, Len(formula_))]
        ELSE [atom_count_multiplier |-> 1, formula |-> formula_]

\* compound_abbreviations.get(formula), taken when it is there
Expand(formula_) ==
    IF DictHas(compound_abbreviations, formula_)
    THEN DictGet(compound_abbreviations, formula_, <<>>)
    ELSE formula_

RECURSIVE GroupedElements(_, _)
\* re.findall(r"\(([^)]+)\)(\d+)", s) from position i: <<string, digit>> pairs
GroupedElements(s, i) ==
    IF i > Len(s) THEN <<>>
    ELSE LET j == SpanNot(s, i + 1, {")"})
             d == Span(s, j + 2, Digits)
         IN  IF s[i] = "(" /\ j >= i + 1 /\ j < Len(s) /\ d >= j + 2
             THEN << <<SubSeq(s, i + 1, j), DigitsToNat(SubSeq(s, j + 2, d), 0)>> >>
                  \o GroupedElements(s, d + 1)
             ELSE GroupedElements(s, i + 1)

RECURSIVE StandaloneElements(_, _)
\* re.findall(r"\([^()]*\)|([A-Za-z][A-Za-z0-9]*)", s) from position i: the
\* captured group, empty for a match of the first alternative
StandaloneElements(s, i) ==
    IF i > Len(s) THEN <<>>
    ELSE LET p == SpanNot(s, i + 1, {"(", ")"})
             a == Span(s, i + 1, Alpha \cup Digits)
         IN  IF s[i] = "(" /\ p < Len(s) /\ s[p + 1] = ")"
             THEN << <<>> >> \o StandaloneElements(s, p + 2)
             ELSE IF s[i] \in Alpha
             THEN <<SubSeq(s, i, a)>> \o StandaloneElements(s, a + 1)
             ELSE StandaloneElements(s, i + 1)

RECURSIVE ElementTokens(_, _)
\* re.findall("[A-Z][^A-Z]*", string) from position i
ElementTokens(string, i) ==
    IF i > Len(string) THEN <<>>
    ELSE IF string[i] \in Upper
    THEN LET j == SpanNot(string, i + 1, Upper)
         IN  <<SubSeq(string, i, j)>> \o ElementTokens(string, j + 1)
    ELSE ElementTokens(string, i + 1)

RECURSIVE CountElements(_, _, _)
\* the inner loop: every element of one <<string, digit>> pair is added
CountElements(elements, multiplier, element_count) ==
    IF elements = <<>> THEN element_count
    ELSE CountElements(Tail(elements), multiplier,
                       aggregate_dict_values(
                           _get_element_count(Head(elements), multiplier),
                           element_count))

RECURSIVE CountGroups(_, _, _)
\* the outer loop over grouped_elements
CountGroups(grouped_elements, atom_count_multiplier, element_count) ==
    IF grouped_elements = <<>> THEN element_count
    ELSE CountGroups(Tail(grouped_elements), atom_count_multiplier,
                     CountElements(ElementTokens(Head(grouped_elements)[1], 1),
                                   Head(grouped_elements)[2] * atom_count_multiplier,
                                   element_count))

\* get_element_count(formula)
get_element_count(formula_) ==
    LET m          == LeadingMultiplier(formula_)
        body       == Expand(m.formula)
        standalone == StandaloneElements(body, 1)
        grouped    == GroupedElements(body, 1)
                      \o [i \in 1..Len(standalone) |-> <<standalone[i], 1>>]
    IN  CountGroups(grouped, m.atom_count_multiplier, <<>>)

RECURSIVE SplitSigns(_)
\* re.split(r"([+-])", s): the pieces and the signs between them
SplitSigns(s) ==
    IF \A i \in 1..Len(s) : s[i] \notin {"+", "-"} THEN <<s>>
    ELSE LET i == CHOOSE k \in 1..Len(s) :
                      /\ s[k] \in {"+", "-"}
                      /\ \A h \in 1..(k - 1) : s[h] \notin {"+", "-"}
         IN  <<SubSeq(s, 1, i - 1), <<s[i]>>>>
             \o SplitSigns(SubSeq(s, i + 1, Len(s)))

\* re.findall(r"^\[(\d+)M", s): the digits, or nothing
BaseMultiplier(s) ==
    LET j == Span(s, 2, Digits)
    IN  IF s # <<>> /\ s[1] = "[" /\ j >= 2 /\ j < Len(s) /\ s[j + 1] = "M"
        THEN <<SubSeq(s, 2, j)>>
        ELSE <<>>

\* {k: int(f"{sign}{v}") for k, v in element_count.items()}
Signed(sign, element_count) ==
    [i \in 1..Len(element_count) |->
        <<element_count[i][1], StrToInt(sign \o IntToStr(element_count[i][2]))>>]

RECURSIVE ApplyComponents(_, _, _)
\* the loop over the <sign, component> pairs from index i on
ApplyComponents(adduct_components, i, updated_formula) ==
    IF i >= Len(adduct_components) THEN updated_formula
    ELSE ApplyComponents(
             adduct_components, i + 2,
             aggregate_dict_values(
                 updated_formula,
                 Signed(adduct_components[i],
                        get_element_count(adduct_components[i + 1]))))

\* some value of the dict is negative
AnyNegative(d) == \E i \in 1..Len(d) : d[i][2] < 0

\* modify_formula_dict(formula_dict, adduct): None, or Some(dict)
modify_formula_dict(formula_dict, adduct_) ==
    LET adduct_components == SplitSigns(adduct_)
        atom_count_multiplier == BaseMultiplier(adduct_components[1])
        scaled == IF atom_count_multiplier # <<>>
                  THEN [i \in 1..Len(formula_dict) |->
                           <<formula_dict[i][1],
                             DigitsToNat(atom_count_multiplier[1], 0)
                                 * formula_dict[i][2]>>]
                  ELSE formula_dict
        updated_formula == ApplyComponents(adduct_components, 2, scaled)
    IN  IF AnyNegative(updated_formula) THEN None ELSE Some(updated_formula)

\* The dict objects a call of modify_formula_dict handles are the caller's
\* ("caller") and those made inside the call ("local").

\* formula_dict.copy(): a new dict
DictCopy(obj) == "local"

\* aggregate_dict_values(dict1, dict2) writes to dict2 and returns it
AggregateWrites(obj1, obj2) == obj2

RECURSIVE CallerWritten(_, _)
\* some pass of the loop over the terms writes to the caller's dict;
\* updated_formula is the object the variable of that name refers to, the
\* second argument of aggregate_dict_values is the dict made for the term
CallerWritten(updated_formula, terms) ==
    /\ terms > 0
    /\ \/ AggregateWrites(updated_formula, "local") = "caller"
       \/ CallerWritten(AggregateWrites(updated_formula, "local"), terms - 1)

\* an update of the caller's dict in place
CallerDictAfter_InPlace(formula_dict, adduct_) ==
    IF modify_formula_dict(formula_dict, adduct_).isNone THEN formula_dict
    ELSE modify_formula_dict(formula_dict, adduct_).val

\* the dict the caller gave to modify_formula_dict, after the call
CallerDictAfter(formula_dict, adduct_) ==
    LET adduct_components == SplitSigns(adduct_)
        updated_formula ==
            IF BaseMultiplier(adduct_components[1]) # <<>> THEN "local"
            ELSE DictCopy("caller")
    IN  IF CallerWritten(updated_formula, (Len(adduct_components) - 1) \div 2)
        THEN ApplyComponents(adduct_components, 2, formula_dict)
        ELSE formula_dict

\* re.sub(r"[+-](\d+)?$", "", s): a trailing sign, with the digits after it
StripCharge(s) ==
    IF \E i \in 1..Len(s) :
           s[i] \in {"+", "-"} /\ \A k \in (i + 1)..Len(s) : s[k] \in Digits
    THEN LET i == CHOOSE k \in 1..Len(s) :
                      /\ s[k] \in {"+", "-"}
                      /\ \A h \in (k + 1)..Len(s) : s[h] \in Digits
                      /\ \A g \in 1..(k - 1) :
                             ~(s[g] \in {"+", "-"}
                               /\ \A h \in (g + 1)..Len(s) : s[h] \in Digits)
         IN  SubSeq(s, 1, i - 1)
    ELSE s

\* a symbol pattern of the capital alone
SymbolEnd_CapitalOnly(s, i) == i

\* the end of a match of [A-Z][a-z]? that starts at i
SymbolEnd(s, i) == IF i < Len(s) /\ s[i + 1] \in Lower THEN i + 1 ELSE i

RECURSIVE SplitSymbols(_)
\* re.split(r"([A-Z][a-z]?)", s): the pieces and the symbols between them
SplitSymbols(s) ==
    IF \A i \in 1..Len(s) : s[i] \notin Upper THEN <<s>>
    ELSE LET i == CHOOSE k \in 1..Len(s) :
                      s[k] \in Upper /\ \A h \in 1..(k - 1) : s[h] \notin Upper
             j == SymbolEnd(s, i)
         IN  <<SubSeq(s, 1, i - 1), SubSeq(s, i, j)>>
             \o SplitSymbols(SubSeq(s, j + 1, Len(s)))

RECURSIVE PairsToDict(_, _, _)
\* the dict comprehension of str_to_dict, from index i on: [exc, d]
PairsToDict(split, i, d) ==
    IF i >= Len(split) THEN [exc |-> "none", d |-> d]
    ELSE IF split[i + 1] = <<>> THEN PairsToDict(split, i + 2, DictPut(d, split[i], 1))
    ELSE IF ~IsIntLiteral(split[i + 1]) THEN [exc |-> "ValueError", d |-> <<>>]
    ELSE PairsToDict(split, i + 2, DictPut(d, split[i], StrToInt(split[i + 1])))

\* str_to_dict(formula): [exc, d]
str_to_dict(formula_) == PairsToDict(SplitSymbols(StripCharge(formula_)), 2, <<>>)

\* Compound.from_str(formula, isotope_db): [exc, c]
from_str(formula_) ==
    LET r == str_to_dict(formula_)
    IN  IF r.exc # "none" THEN [exc |-> r.exc, c |-> NoCompound]
        ELSE Construct(Some(r.d))

\* Compound.get_updated_compound(adduct) of the compound c: [exc, c]
get_updated_compound(c, adduct_) ==
    Construct(modify_formula_dict(c.element_count, adduct_))

--------------------------------------------------------------------------
(* Compounds: construction, get_updated_compound, from_str *)

\* the atom counts the constructor is given
Counts == {-1, 0, 1, 2}

\* the keys: elements on and off the whitelist, an isotope's symbol, and a
\* symbol the registry does not hold
Keys ==
    {<<"C">>, <<"H">>, <<"O">>, <<"N", "a">>, <<"K">>, <<"1", "3", "C">>,
     <<"X", "x">>}

\* keys in a formula dict
MaxKeys == 2

FormulaDicts ==
    UNION {{[i \in 1..n |-> <<ks[i], cs[i]>>] :
               ks \in {k \in [1..n -> Keys] : \A i, j \in 1..n : i # j => k[i] # k[j]},
               cs \in [1..n -> Counts]}
           : n \in 0..MaxKeys}

\* counts of two digits, for the elements of a single isotope
LargeDicts ==
    { << <<<<"F">>, 12>> >>,
      << <<<<"N", "a">>, 12>> >>,
      << <<<<"N", "a">>, 1>>, <<<<"F">>, 12>> >>,
      << <<<<"F">>, 10>>, <<<<"N", "a">>, 12>> >> }

\* the adducts given to get_updated_compound
Adducts ==
    { <<"[", "M", "+", "H", "]", "+">>,
      <<"[", "M", "-", "H", "]", "-">>,
      <<"[", "M", "+", "N", "a", "]", "+">>,
      <<"[", "M", "-", "2", "C", "]", "+">>,
      <<"[", "M", "-", "H", "2", "O", "+", "H", "]", "+">>,
      <<"[", "2", "M", "+", "N", "a", "]", "+">>,
      <<"[", "M", "+", "2", "H", "]", "2", "+">> }

\* strings given to from_str besides a compound's own formula
FormulaTexts ==
    { <<"C", "H", "4", "O">>,
      <<"N", "a", "2">>,
      <<"C", "-", "1", "H", "3">>,
      <<"C", "H", "4", "+", "2">>,
      <<"C", "a", "2">>,
      <<"C", "2", ")">> }

\* c.get_updated_compound(adduct_) on the constructed compound
GetUpdatedCompound(adduct_) ==
    /\ pc = "ready"
    /\ adduct' = adduct_
    /\ parsed' = modify_formula_dict(compound.element_count, adduct_)
    /\ \E r \in {get_updated_compound(compound, adduct_)} :
           /\ raised' = r.exc
           /\ result' = r.c
    /\ compound' = [compound EXCEPT
                        !.element_count = CallerDictAfter(@, adduct_)]
    /\ pc' = "updated"
    /\ UNCHANGED <<formula, charge, abundance_limit, max_iter, scale,
                   peaks, iteration, n_tries, text, shape,
                   previous>>

\* Compound.from_str(text_, isotope_db)
FromStr(text_) ==
    /\ pc = "ready"
    /\ text' = text_
    /\ \E r \in {from_str(text_)} :
           /\ raised' = r.exc
           /\ result' = r.c
    /\ pc' = "rebuilt"
    /\ UNCHANGED <<formula, compound, charge, abundance_limit, max_iter, scale,
                   peaks, iteration, n_tries, adduct, parsed, shape,
                   previous>>

\* Compound.from_str(c.formula, isotope_db) for the constructed compound c
FromOwnFormula == FromStr(compound.formula)

\* the orders in which the keys of a dict can have been inserted
KeyOrders == Permutations(1..MaxKeys)

\* the dict d with its items inserted in the order p gives them
Reordered(d, p) ==
    [k \in 1..Len(d) |->
        d[CHOOSE i \in 1..Len(d) :
              Cardinality({j \in 1..Len(d) : p[j] <= p[i]}) = k]]

\* Compound(formula', isotope_db) for a dict formula' equal to the dict the
\* first compound was constructed from, its keys inserted in the order p
NewCompoundReordered(p) ==
    /\ pc = "ready"
    /\ Len(formula.val) <= MaxKeys
    /\ parsed' = Some(Reordered(formula.val, p))
    /\ \E r \in {Construct(Some(Reordered(formula.val, p)))} :
           /\ raised' = r.exc
           /\ result' = r.c
    /\ pc' = "reordered"
    /\ UNCHANGED <<formula, compound, charge, abundance_limit, max_iter, scale,
                   peaks, iteration, n_tries, adduct, text, shape,
                   previous>>

InitCompound ==
    /\ pc = "new"
    /\ formula \in {Some(f) : f \in FormulaDicts \cup LargeDicts}
    /\ compound = NoCompound
    /\ raised = "none"
    /\ charge = 0
    /\ abundance_limit = RInt(0)
    /\ max_iter = 0
    /\ scale = "abs"
    /\ peaks = <<>>
    /\ iteration = 0
    /\ n_tries = 0
    /\ result = NoResult
    /\ previous = NoResult
    /\ adduct = <<>>
    /\ text = <<>>
    /\ parsed = None
    /\ shape = <<>>

NextCompound ==
    \/ NewCompound
    \/ \E a \in Adducts : GetUpdatedCompound(a)
    \/ \E t \in FormulaTexts : FromStr(t)
    \/ FromOwnFormula
    \/ \E p \in KeyOrders : NewCompoundReordered(p)

\* construction and the two ways to a second compound
SpecCompound == InitCompound /\ [][NextCompound]_vars

--------------------------------------------------------------------------
(* A compound used for one call after another *)

\* the compounds: C and H, up to MaxAtoms atoms
CallFormulas == CountDicts(<< <<"C">>, <<"H">> >>, MaxAtoms) \ {<<>>}

\* the caller takes what a call gave (a pattern, a compound or an
\* exception) and goes on with the compound
Release ==
    /\ pc \in {"returned", "updated"}
    /\ previous' = IF pc = "returned" THEN result ELSE previous
    /\ result' = NoResult
    /\ raised' = "none"
    /\ adduct' = <<>>
    /\ parsed' = None
    /\ peaks' = <<>>
    /\ iteration' = 0
    /\ n_tries' = 0
    /\ pc' = "ready"
    /\ UNCHANGED <<formula, compound, charge, abundance_limit, max_iter, scale,
                   text, shape>>

InitCalls ==
    /\ pc = "new"
    /\ formula \in {Some(f) : f \in CallFormulas}
    /\ compound = NoCompound
    /\ raised = "none"
    /\ charge = 0
    /\ abundance_limit = RInt(0)
    /\ max_iter = 0
    /\ scale = "abs"
    /\ peaks = <<>>
    /\ iteration = 0
    /\ n_tries = 0
    /\ result = NoResult
    /\ previous = NoResult
    /\ adduct = <<>>
    /\ text = <<>>
    /\ parsed = None
    /\ shape = <<>>

NextCalls ==
    \/ NewCompound
    \/ \E c \in Charges, l \in Limits, m \in MaxIters, s \in Scales : IsoCall(c, l, m, s)
    \/ IsoPass
    \/ IsoReturn
    \/ \E a \in Adducts : GetUpdatedCompound(a)
    \/ Release

\* isopattern and get_updated_compound calls on one compound, in any order
SpecCalls == InitCalls /\ [][NextCalls]_vars

--------------------------------------------------------------------------
(* The parsers' inputs: formulas and adducts written from their structure *)

\* a token of a formula: an element with its count (0: no count is
\* written), or a parenthesized group of tokens with its multiplier
El(el, n) == [t |-> "el", el |-> el, n |-> n, body |-> <<>>]

Group(body, n) == [t |-> "group", el |-> <<>>, n |-> n, body |-> body]

\* tokens in a formula body
MaxTokens == 2

Atoms ==
    {El(el, n) : el \in {<<"C">>, <<"H">>, <<"N", "a">>}, n \in {0, 2}}
        \cup {El(<<"O">>, 12)}

GroupAtoms == {El(<<"C">>, 0), El(<<"H">>, 3), El(<<"N", "a">>, 0)}

Bodies(tokens) == UNION {[1..n -> tokens] : n \in 1..MaxTokens}

\* groups of elements
Groups == {Group(b, n) : b \in Bodies(GroupAtoms), n \in {1, 3}}

\* groups that hold a group
NestedGroups ==
    {Group(<<Group(<<a>>, 3)>> \o rest, 2) :
        a \in GroupAtoms, rest \in {<<>>, <<El(<<"N">>, 0)>>}}
    \cup {Group(<<El(<<"N">>, 0), Group(<<a>>, 2)>>, 3) : a \in GroupAtoms}

\* the shorthand names, with the atoms of the chemical each stands for
Abbreviations ==
    << << <<"A", "C", "N">>, <<El(<<"C">>, 2), El(<<"H">>, 3), El(<<"N">>, 0)>> >>,
       << <<"D", "M", "S", "O">>,
          <<El(<<"C">>, 2), El(<<"H">>, 6), El(<<"S">>, 0), El(<<"O">>, 0)>> >>,
       << <<"F", "A">>, <<El(<<"C">>, 0), El(<<"H">>, 2), El(<<"O">>, 2)>> >>,
       << <<"H", "A", "c">>, <<El(<<"C">>, 2), El(<<"H">>, 4), El(<<"O">>, 2)>> >>,
       << <<"T", "F", "A">>,
          <<El(<<"C">>, 2), El(<<"H">>, 0), El(<<"F">>, 3), El(<<"O">>, 2)>> >>,
       << <<"I", "s", "o", "P", "r", "o", "p">>,
          <<El(<<"C">>, 3), El(<<"H">>, 8), El(<<"O">>, 0)>> >> >>

\* the leading multipliers (0: none is written)
Multipliers == {0, 2, 13}

\* a formula: [kind, mult, abbr (the shorthand name, if one is used), body]
FormulaShapes ==
    {[kind |-> "formula", mult |-> m, abbr |-> <<>>, body |-> b] :
        m \in Multipliers, b \in Bodies(Atoms \cup Groups \cup NestedGroups)}
    \cup {[kind |-> "formula", mult |-> m, abbr |-> Abbreviations[i][1],
           body |-> Abbreviations[i][2]] :
             m \in Multipliers, i \in 1..Len(Abbreviations)}

RECURSIVE RenderBody(_)
\* the text of a body
RenderBody(body) ==
    IF body = <<>> THEN <<>>
    ELSE LET tk == Head(body)
         IN  (IF tk.t = "el"
              THEN tk.el \o (IF tk.n = 0 THEN <<>> ELSE NatToStr(tk.n))
              ELSE <<"(">> \o RenderBody(tk.body) \o <<")">> \o NatToStr(tk.n))
             \o RenderBody(Tail(body))

\* the text of a formula
RenderFormula(f) ==
    (IF f.mult = 0 THEN <<>> ELSE NatToStr(f.mult))
        \o (IF f.abbr # <<>> THEN f.abbr ELSE RenderBody(f.body))

RECURSIVE BodyCount(_, _)
\* the atoms of element el in a body: an element counts its integer (1
\* when none is written), a group its multiplier times its body
BodyCount(body, el) ==
    IF body = <<>> THEN 0
    ELSE LET tk == Head(body)
         IN  (IF tk.t = "el"
              THEN (IF tk.el = el THEN (IF tk.n = 0 THEN 1 ELSE tk.n) ELSE 0)
              ELSE tk.n * BodyCount(tk.body, el))
             + BodyCount(Tail(body), el)

\* the atoms of element el in a formula
FormulaCount(f, el) == (IF f.mult = 0 THEN 1 ELSE f.mult) * BodyCount(f.body, el)

\* the elements the inputs are written with
Symbols ==
    {<<"C">>, <<"H">>, <<"N">>, <<"N", "a">>, <<"O">>, <<"S">>, <<"F">>}

\* the terms of an adduct, each a formula
TermTexts ==
    { <<"H">>, <<"2", "H">>, <<"N", "a">>, <<"H", "2", "O">>,
      <<"A", "C", "N">>, <<"C", "2", "H", "3", "N">> }

\* terms in an adduct
MaxTerms == 2

\* an adduct [<n>M<op><term>...]<charge><sign>; n = 0 and charge = 0: not
\* written
AdductShapes ==
    {[kind |-> "adduct", n |-> n, terms |-> ts, charge |-> c, sign |-> sg] :
        n \in {0, 2},
        ts \in UNION {[1..k -> {"+", "-"} \X TermTexts] : k \in 0..MaxTerms},
        c \in {0, 2},
        sg \in {"+", "-"}}

\* the base atom counts given with an adduct
BaseDicts ==
    { << <<<<"C">>, 1>> >>,
      << <<<<"C">>, 2>>, <<<<"H">>, 3>>, <<<<"N">>, 1>> >>,
      << <<<<"H">>, 0>>, <<<<"O">>, 1>> >>,
      << <<<<"N", "a">>, 1>>, <<<<"H">>, 2>> >> }

\* the text of an adduct
RenderAdduct(a) ==
    <<"[">> \o (IF a.n = 0 THEN <<>> ELSE NatToStr(a.n)) \o <<"M">>
        \o Flatten([i \in 1..Len(a.terms) |-> <<a.terms[i][1]>> \o a.terms[i][2]])
        \o <<"]">> \o (IF a.charge = 0 THEN <<>> ELSE NatToStr(a.charge))
        \o <<a.sign>>

\* get_element_count(text) of a written formula
ParseFormula ==
    /\ pc = "input"
    /\ shape.kind = "formula"
    /\ text' = RenderFormula(shape)
    /\ parsed' = Some(get_element_count(RenderFormula(shape)))
    /\ pc' = "counted"
    /\ UNCHANGED <<formula, compound, raised, charge, abundance_limit, max_iter,
                   scale, peaks, iteration, n_tries, result, adduct, shape,
                   previous>>

\* modify_formula_dict(formula_dict, adduct) of a written adduct
ParseAdduct ==
    /\ pc = "input"
    /\ shape.kind = "adduct"
    /\ adduct' = RenderAdduct(shape)
    /\ parsed' = modify_formula_dict(formula.val, RenderAdduct(shape))
    /\ formula' = Some(CallerDictAfter(formula.val, RenderAdduct(shape)))
    /\ pc' = "modified"
    /\ UNCHANGED <<compound, raised, charge, abundance_limit, max_iter,
                   scale, peaks, iteration, n_tries, result, text, shape,
                   previous>>

InitParse ==
    /\ pc = "input"
    /\ \/ shape \in FormulaShapes /\ formula = Some(<<>>)
       \/ shape \in AdductShapes /\ formula \in {Some(b) : b \in BaseDicts}
    /\ compound = NoCompound
    /\ raised = "none"
    /\ charge = 0
    /\ abundance_limit = RInt(0)
    /\ max_iter = 0
    /\ scale = "abs"
    /\ peaks = <<>>
    /\ iteration = 0
    /\ n_tries = 0
    /\ result = NoResult
    /\ previous = NoResult
    /\ adduct = <<>>
    /\ text = <<>>
    /\ parsed = None

NextParse ==
    \/ ParseFormula
    \/ ParseAdduct

\* the two parsers on written inputs
SpecParse == InitParse /\ [][NextParse]_vars

--------------------------------------------------------------------------
(* Element.monoisotope and Element.other_isotopes, for any set of isotopes *)

\* an order by mass
Isotope_lt_ByMass(a, b) == a.mass < b.mass

\* Isotope.__lt__
Isotope_lt(a, b) == RLess(a.abundance, b.abundance)

RECURSIVE InsertIsotope(_, _)
\* x goes behind every isotope that is not greater than it
InsertIsotope(acc, x) ==
    IF acc = <<>> THEN <<x>>
    ELSE IF Isotope_lt(x, Head(acc)) THEN <<x>> \o acc
    ELSE <<Head(acc)>> \o InsertIsotope(Tail(acc), x)

RECURSIVE SortedList(_, _)
\* sorted(self.isotopes), the set iterated in the order `order`: ascending
\* by __lt__, isotopes that compare equal stay in the order of iteration
SortedList(order, acc) ==
    IF order = <<>> THEN acc
    ELSE SortedList(Tail(order), InsertIsotope(acc, Head(order)))

\* isotopes of an element
MaxIsotopes == 3

\* the abundances of the table's rows, equal ones among them
TableAbundances == {Rat(1, 4), Rat(2, 4), Rat(3, 4)}

\* the sets of up to MaxIsotopes isotopes of an element X
IsotopeSets ==
    UNION {{{Isotope(<<DigitChars[k + 1], "X">>, 1000 * k, ab[k][1], ab[k][2])
                : k \in ks} : ab \in [ks -> TableAbundances]}
           : ks \in (SUBSET (1..MaxIsotopes)) \ {{}}}

\* the orders in which a set can be iterated (the order is the same for
\* every iteration of one set)
IterationOrders(S) ==
    {o \in [1..Cardinality(S) -> S] :
        \A i, j \in 1..Cardinality(S) : i # j => o[i] # o[j]}

\* element.monoisotope, first access (the value is cached)
AccessMonoisotope ==
    /\ pc = "element"
    /\ result = NoResult
    /\ \E srt \in {SortedList(shape.order, <<>>)} : result' = srt[Len(srt)]
    /\ UNCHANGED <<pc, formula, compound, raised, charge, abundance_limit,
                   max_iter, scale, peaks, iteration, n_tries, adduct, text,
                   parsed, shape,
                   previous>>

\* element.other_isotopes, first access (the value is cached)
AccessOtherIsotopes ==
    /\ pc = "element"
    /\ parsed = None
    /\ \E srt \in {SortedList(shape.order, <<>>)} :
           parsed' = Some(SubSeq(srt, 1, Len(srt) - 1))
    /\ UNCHANGED <<pc, formula, compound, raised, charge, abundance_limit,
                   max_iter, scale, peaks, iteration, n_tries, result, adduct,
                   text, shape,
                   previous>>

InitElement ==
    /\ pc = "element"
    /\ \E S \in IsotopeSets :
           shape \in {[symbol |-> <<"X">>, isotopes |-> S, order |-> o] :
                         o \in IterationOrders(S)}
    /\ formula = None
    /\ compound = NoCompound
    /\ raised = "none"
    /\ charge = 0
    /\ abundance_limit = RInt(0)
    /\ max_iter = 0
    /\ scale = "abs"
    /\ peaks = <<>>
    /\ iteration = 0
    /\ n_tries = 0
    /\ result = NoResult
    /\ previous = NoResult
    /\ adduct = <<>>
    /\ text = <<>>
    /\ parsed = None

NextElement ==
    \/ AccessMonoisotope
    \/ AccessOtherIsotopes

\* an Element of any isotope set and its two derived properties
SpecElement == InitElement /\ [][NextElement]_vars

--------------------------------------------------------------------------
(* utils.py: get_decoy_info *)

\* re.match(r"([+-])(\d+)?(.*)", decoy) matches: the string starts with a
\* sign (the two groups after it match whatever follows)
SignMatched(decoy) == decoy # <<>> /\ decoy[1] \in {"+", "-"}

\* get_decoy_info(decoy): [exc, val] with val = <<element, multiple, sign>>
get_decoy_info(decoy) ==
    IF SignMatched(decoy)
    THEN LET j      == Span(decoy, 2, Digits)
             group2 == SubSeq(decoy, 2, j)
             group3 == SubSeq(decoy, j + 1, Len(decoy))
         IN  [exc |-> "none",
              val |-> <<group3,
                        IF group2 # <<>> THEN DigitsToNat(group2, 0) ELSE 1,
                        StrToInt(<<decoy[1], "1">>)>>]
    ELSE [exc |-> "ValueError", val |-> <<>>]

\* characters in a decoy string
MaxDecoyLen == 4

\* the characters the decoy strings are written with
DecoyChars == {"+", "-", "2", "0", "H", "F", "e"}

\* every string of these characters, the empty one included
DecoyTexts == UNION {[1..n -> DecoyChars] : n \in 0..MaxDecoyLen}

\* get_decoy_info(text)
GetDecoyInfo ==
    /\ pc = "decoy"
    /\ \E r \in {get_decoy_info(text)} :
           /\ raised' = r.exc
           /\ parsed' = IF r.exc = "none" THEN Some(r.val) ELSE None
    /\ pc' = "decoded"
    /\ UNCHANGED <<formula, compound, charge, abundance_limit, max_iter, scale,
                   peaks, iteration, n_tries, result, adduct, text, shape,
                   previous>>

InitDecoy ==
    /\ pc = "decoy"
    /\ text \in DecoyTexts
    /\ formula = None
    /\ compound = NoCompound
    /\ raised = "none"
    /\ charge = 0
    /\ abundance_limit = RInt(0)
    /\ max_iter = 0
    /\ scale = "abs"
    /\ peaks = <<>>
    /\ iteration = 0
    /\ n_tries = 0
    /\ result = NoResult
    /\ previous = NoResult
    /\ adduct = <<>>
    /\ parsed = None
    /\ shape = <<>>

NextDecoy == GetDecoyInfo

\* the decoy parser on every short string
SpecDecoy == InitDecoy /\ [][NextDecoy]_vars

--------------------------------------------------------------------------
(* peak.py: Peak *)

\* Peak.__post_init__(isotope_db, formula_str), formula_str an optional
\* string: [exc, formula], exc the exception that leaves the constructor
\* ("none": the Peak is created with this formula field)
post_init(formula_str) ==
    IF formula_str.isNone THEN [exc |-> "none", formula |-> None]
    ELSE LET r == from_str(formula_str.val)
         IN  IF r.exc = "none" THEN [exc |-> "none", formula |-> Some(r.c)]
             ELSE IF r.exc = "ValueError"          \* except ValueError: pass
             THEN [exc |-> "none", formula |-> None]
             ELSE [exc |-> r.exc, formula |-> None]

\* the longest formula string given to a Peak
MaxFormulaLen == 3

\* the characters of those strings: symbols of registered elements (C, H),
\* a capital and a small letter that make symbols of none (Z, Ca, Ha),
\* digits and a sign
FormulaChars == {"C", "H", "Z", "a", "2", "0", "-"}

\* formula_str: no string, or any string of up to MaxFormulaLen characters
\* in which no digit follows a digit other than 0 (the counts stay below
\* 10, and the powers in monoabund small)
FormulaStrs ==
    {None} \cup
    {Some(t) : t \in
        {u \in UNION {[1..n -> FormulaChars] : n \in 0..MaxFormulaLen} :
            \A i \in 1..(Len(u) - 1) :
                (u[i] \in Digits \ {"0"}) => u[i + 1] \notin Digits}}

\* Peak(id, mz, rt, isotope_db, formula_str)
NewPeak ==
    /\ pc = "peak"
    /\ \E r \in {post_init(shape.formula_str)} :
           /\ raised' = r.exc
           /\ parsed' = r.formula
           /\ pc' = IF r.exc = "none" THEN "created" ELSE "raised"
    /\ UNCHANGED <<formula, compound, charge, abundance_limit, max_iter, scale,
                   peaks, iteration, n_tries, result, adduct, text, shape,
                   previous>>

InitPeak ==
    /\ pc = "peak"
    /\ shape \in {[formula_str |-> f] : f \in FormulaStrs}
    /\ formula = None
    /\ compound = NoCompound
    /\ raised = "none"
    /\ charge = 0
    /\ abundance_limit = RInt(0)
    /\ max_iter = 0
    /\ scale = "abs"
    /\ peaks = <<>>
    /\ iteration = 0
    /\ n_tries = 0
    /\ result = NoResult
    /\ previous = NoResult
    /\ adduct = <<>>
    /\ text = <<>>
    /\ parsed = None

NextPeak == NewPeak

\* the construction of a Peak from every short formula string
SpecPeak == InitPeak /\ [][NextPeak]_vars

--------------------------------------------------------------------------
(* str_to_dict and get_element_count on one string *)

\* the most tokens of a formula given to both parsers
MaxBareTokens == 4

\* a bare token: an element symbol, with or without a count
BareTokens ==
    {sym \o n : sym \in {<<"C">>, <<"H">>, <<"N", "a">>}, n \in {<<>>, <<"3">>}}

\* the formulas of 1 to MaxBareTokens bare tokens; an element may occur more
\* than once
BareTexts ==
    {Flatten(ts) : ts \in UNION {[1..n -> BareTokens] : n \in 1..MaxBareTokens}}

\* str_to_dict(text) and get_element_count(text)
ParseBothWays ==
    /\ pc = "bare"
    /\ result' = str_to_dict(text)
    /\ parsed' = Some(get_element_count(text))
    /\ pc' = "both"
    /\ UNCHANGED <<formula, compound, raised, charge, abundance_limit, max_iter,
                   scale, peaks, iteration, n_tries, adduct, text, shape,
                   previous>>

InitBare ==
    /\ pc = "bare"
    /\ text \in BareTexts
    /\ formula = None
    /\ compound = NoCompound
    /\ raised = "none"
    /\ charge = 0
    /\ abundance_limit = RInt(0)
    /\ max_iter = 0
    /\ scale = "abs"
    /\ peaks = <<>>
    /\ iteration = 0
    /\ n_tries = 0
    /\ result = NoResult
    /\ previous = NoResult
    /\ adduct = <<>>
    /\ parsed = None
    /\ shape = <<>>

NextBare == ParseBothWays

\* the two parsers on every formula of a few bare tokens
SpecBare == InitBare /\ [][NextBare]_vars

--------------------------------------------------------------------------
(* Reference notions the properties are stated with *)

RECURSIVE Fact(_)
Fact(n) == IF n <= 1 THEN 1 ELSE n * Fact(n - 1)

RECURSIVE RProduct(_)
RProduct(rs) == IF rs = <<>> THEN RInt(1) ELSE RMul(Head(rs), RProduct(Tail(rs)))

\* the isotopes of the element el, the monoisotope first
IsotopesOf(el) == <<MonoisotopeOf[el]>> \o OtherIsotopesOf[el]

\* the largest atom count of the compound c
LargestCount(c) ==
    IF c.element_count = <<>> THEN 0
    ELSE LET v == DictValues(c.element_count)
         IN  v[CHOOSE i \in 1..Len(v) : \A j \in 1..Len(v) : v[j] <= v[i]]

\* the isotopologues of c: every assignment of isotope counts in which the
\* isotopes of each element hold all of its atoms
Isotopologues(c) ==
    {f \in [Cols(c) -> 0..LargestCount(c)] :
        \A i \in 1..Len(c.element_count) :
            LET isos == IsotopesOf(c.element_count[i][1])
            IN  SeqSum([k \in 1..Len(isos) |-> f[isos[k].symbol]])
                = c.element_count[i][2]}

\* the multinomial probability of the isotopologue f of c
ExactAbundance(c, f) ==
    RProduct([i \in 1..Len(c.element_count) |->
        LET isos == IsotopesOf(c.element_count[i][1])
        IN  RMul(Rat(Fact(c.element_count[i][2]),
                     RProduct([k \in 1..Len(isos) |-> RInt(Fact(f[isos[k].symbol]))])[1]),
                 RProduct([k \in 1..Len(isos) |->
                              RPow(isos[k].abundance, f[isos[k].symbol])]))])

\* the abundances of a returned pattern
Abundances(rows) == [i \in 1..Len(rows) |-> rows[i].abundance]

\* the rows the post-processing keeps, as the loop left them
Retained == SelectSeq(peaks, LAMBDA r : NonZero(r.abundance))

\* the retained rows do not all have the same abundance
TwoAbundances ==
    \E i, j \in 1..Len(Retained) : Retained[i].abundance # Retained[j].abundance

--------------------------------------------------------------------------
(* C1: for every constructed compound and all arguments the returned      *)
(* pattern is non-empty and every returned abundance is a number >= 0,    *)
(* under the absolute and under the relative scale.                        *)
C1_PatternNonEmptyAbundancesNonNegative ==
    pc = "returned" =>
        /\ result # <<>>
        /\ \A i \in 1..Len(result) :
              /\ ~IsNaN(result[i].abundance)
              /\ RLeq(RInt(0), result[i].abundance)

C3_EveryPeakAboveLimitReturned ==
    (pc = "returned" /\ n_tries < max_iter) =>
        \A f \in Isotopologues(compound) :
            RLeq(abundance_limit, ExactAbundance(compound, f)) =>
                \E i \in 1..Len(result) : result[i].cnt = f

(* C4: isopattern terminates: every call that has entered the loop        *)
(* returns a result.                                                       *)
C4_Terminates == (pc = "loop") ~> (pc = "returned")

C4_Witness ==
    /\ pc = "returned"
    /\ abundance_limit = RInt(0)
    /\ max_iter = NoValve
    /\ iteration >= 3
    /\ Len(result) >= 3
\* every atom count of the constructed compound is positive
PositiveCounts ==
    \A i \in 1..Len(compound.element_count) : compound.element_count[i][2] > 0

\* the dict the compound was constructed from is keyed by symbols of
\* registered elements
ElementKeys ==
    \A i \in 1..Len(formula.val) :
        \E j \in 1..Len(Registry) : formula.val[i][1] = Registry[j].symbol

(* C5: get_updated_compound with an adduct that is infeasible for the     *)
(* compound (parseAdduct gives the null result) does not raise: the null   *)
(* result goes to the caller.                                              *)
C5_InfeasibleAdductDoesNotRaise ==
    (pc = "updated" /\ PositiveCounts /\ parsed.isNone) => raised = "none"

(* C9: for a compound c constructed from a dict keyed by registered        *)
(* element symbols, with positive atom counts, Compound.from_str(c.formula) *)
(* is built without an exception and has the formula string of c, elements  *)
(* off the whitelist and counts of 1 included.                              *)
C9_FormulaRoundTrip ==
    (pc = "rebuilt" /\ text = compound.formula /\ ElementKeys /\ PositiveCounts) =>
        /\ raised = "none"
        /\ result.formula = compound.formula

C9_Witness ==
    /\ pc = "rebuilt"
    /\ text = compound.formula
    /\ ElementKeys
    /\ PositiveCounts
    /\ compound.element_count = << <<<<"F">>, 12>>, <<<<"N", "a">>, 1>> >>
    /\ result.formula = <<"F", "1", "2", "N", "a">>

(* C10: every compound the constructor returns has monomass > 0 and        *)
(* monoabund in (0, 1].                                                    *)
C10_MassAndAbundanceRanges ==
    pc = "ready" =>
        /\ compound.monomass > 0
        /\ RLess(RInt(0), compound.monoabund)
        /\ RLeq(compound.monoabund, RInt(1))
\* the count the adduct of shape a gives element el of the base: n x base
\* plus the counts of every + term minus those of every - term
AdductCount(base, a, el) ==
    (IF a.n = 0 THEN 1 ELSE a.n) * DictGet(base, el, 0)
        + SeqSum([i \in 1..Len(a.terms) |->
                     (IF a.terms[i][1] = "+" THEN 1 ELSE -1)
                         * DictGet(get_element_count(a.terms[i][2]), el, 0)])

\* the keys of a dict, as a set
KeySet(d) == {d[i][1] : i \in 1..Len(d)}

(* C6: modify_formula_dict returns the null result exactly when, after    *)
(* scaling the base and applying all terms, some element's count is        *)
(* negative; otherwise every count of the map is >= 0 and the base's       *)
(* elements, those of count 0 included, are in it.                         *)
C6_NullExactlyWhenNegative ==
    pc = "modified" =>
        /\ parsed.isNone <=>
               \E el \in Symbols : AdductCount(formula.val, shape, el) < 0
        /\ ~parsed.isNone =>
               /\ \A i \in 1..Len(parsed.val) : parsed.val[i][2] >= 0
               /\ KeySet(formula.val) \subseteq KeySet(parsed.val)

(* C7: a non-null result of modify_formula_dict gives every element n x   *)
(* base plus the counts of every + term minus the counts of every - term,  *)
(* each term counted as get_element_count counts it, in any position and   *)
(* also for a shorthand name or a term with a leading multiplier.          *)
C7_AdductCounts ==
    (pc = "modified" /\ ~parsed.isNone) =>
        \A el \in Symbols \cup KeySet(parsed.val) :
            DictGet(parsed.val, el, 0) = AdductCount(formula.val, shape, el)

(* C8: get_element_count gives each element the leading multiplier times  *)
(* the sum over the tokens of its count: an element counts its integer, an *)
(* element in a group its integer times the group's multiplier; a          *)
(* shorthand name is counted as its formula.                               *)
C8_FormulaCounts ==
    pc = "counted" =>
        \A el \in Symbols \cup KeySet(parsed.val) :
            DictGet(parsed.val, el, 0) = FormulaCount(shape, el)


\* the dict given to the constructor holds no atom: it is empty or every
\* count is 0
NoAtoms == \A i \in 1..Len(formula.val) : formula.val[i][2] = 0

(* C11: constructing a Compound from a dict with no atom (the empty dict,  *)
(* or every count 0) raises and gives no compound; no compound that a      *)
(* construction returns (the constructor, get_updated_compound, from_str)  *)
(* has monomass 0.                                                         *)
C11_NoAtomsRaises ==
    /\ (pc \in {"ready", "raised"} /\ NoAtoms) =>
           /\ pc = "raised"
           /\ raised = "Exception"
           /\ compound = NoCompound
    /\ pc = "ready" => compound.monomass # 0
    /\ (pc \in {"updated", "rebuilt"} /\ raised = "none") => result.monomass # 0

C11_Witness ==
    /\ pc = "raised"
    /\ raised = "Exception"
    /\ Len(formula.val) = 2
    /\ NoAtoms


\* the whitelist elements the dict d holds with a non-zero count, in the
\* whitelist's order, each with its count (not written when 1)
WhitelistPart(d) ==
    Flatten([i \in 1..Len(VALID_ELEMENTS) |->
                IF DictGet(d, VALID_ELEMENTS[i], 0) = 0 THEN <<>>
                ELSE VALID_ELEMENTS[i] \o
                     (IF DictGet(d, VALID_ELEMENTS[i], 0) = 1 THEN <<>>
                      ELSE IntToStr(DictGet(d, VALID_ELEMENTS[i], 0)))])

\* the elements off the whitelist that d holds with a non-zero count
OtherElements(d) ==
    {d[i][1] : i \in {j \in 1..Len(d) : d[j][2] # 0}} \ Range(VALID_ELEMENTS)

\* the texts that list the elements of the set S in some order, each with
\* its count in d
OtherParts(d, S) ==
    {Flatten([k \in 1..Cardinality(S) |->
                 o[k] \o (IF DictGet(d, o[k], 0) = 1 THEN <<>>
                          ELSE IntToStr(DictGet(d, o[k], 0)))]) :
        o \in {f \in [1..Cardinality(S) -> S] :
                  \A a, b \in 1..Cardinality(S) : a # b => f[a] # f[b]}}

(* C12: the formula string of a compound lists the whitelist elements it   *)
(* holds in the whitelist's order, then the other elements, each with its  *)
(* count (not written when 1), elements of count 0 dropped; and a second   *)
(* compound constructed from an equal dict, whatever the order of its      *)
(* keys, has the same formula string (the two compare equal).  The dicts   *)
(* are keyed by registered element symbols and give a compound of positive *)
(* counts.                                                                 *)
C12_FormulaCanonical ==
    /\ (pc = "ready" /\ ElementKeys /\ PositiveCounts) =>
           \E rest \in OtherParts(formula.val, OtherElements(formula.val)) :
               compound.formula = WhitelistPart(formula.val) \o rest
    /\ (pc = "reordered" /\ ElementKeys /\ PositiveCounts) =>
           /\ raised = "none"
           /\ result.formula = compound.formula


\* the string s is written Sign [Digits] ElementSymbol, the symbol an
\* upper-case letter with at most one lower-case letter after it
IsDecoy(s) ==
    /\ Len(s) >= 2
    /\ s[1] \in {"+", "-"}
    /\ \E k \in 2..Len(s) :
           /\ \A i \in 2..(k - 1) : s[i] \in Digits
           /\ s[k] \in Upper
           /\ Len(s) <= k + 1
           /\ Len(s) = k + 1 => s[k + 1] \in Lower

\* what a string of the grammar stands for: <<element, multiple, sign>>
DecoyMeaning(s) ==
    LET k == CHOOSE i \in 2..Len(s) : s[i] \in Upper
    IN  <<SubSeq(s, k, Len(s)),
          IF k = 2 THEN 1 ELSE DigitsToNat(SubSeq(s, 2, k - 1), 0),
          IF s[1] = "+" THEN 1 ELSE -1>>

(* C13: get_decoy_info returns (element symbol, multiple, sign) for every  *)
(* string written Sign [Digits] ElementSymbol, and raises ValueError for   *)
(* every other string, a sign without an element symbol and characters     *)
(* after the element symbol included.                                      *)
C13_DecoyGrammar ==
    pc = "decoded" =>
        IF IsDecoy(text)
        THEN raised = "none" /\ parsed = Some(DecoyMeaning(text))
        ELSE raised = "ValueError"


\* some isotope of the element other than x has the abundance of x
Tied(x) ==
    \E y \in shape.isotopes : y # x /\ y.abundance = x.abundance

(* C14: for every Element, monoisotope is an isotope of maximum abundance  *)
(* of its isotope set, other_isotopes holds exactly the remaining isotopes *)
(* in ascending order of abundance, and the two together are the whole set *)
(* with no isotope repeated.                                               *)
C14_MonoisotopeAndOthers ==
    /\ (pc = "element" /\ result # NoResult) =>
           /\ result \in shape.isotopes
           /\ \A y \in shape.isotopes : ~RLess(result.abundance, y.abundance)
    /\ (pc = "element" /\ ~parsed.isNone) =>
           /\ Range(parsed.val) \subseteq shape.isotopes
           /\ Len(parsed.val) = Cardinality(shape.isotopes) - 1
           /\ \A i, j \in 1..Len(parsed.val) :
                  i < j => /\ parsed.val[i] # parsed.val[j]
                           /\ ~RLess(parsed.val[j].abundance,
                                     parsed.val[i].abundance)
    /\ (pc = "element" /\ result # NoResult /\ ~parsed.isNone) =>
           /\ Range(parsed.val) = shape.isotopes \ {result}
           /\ Range(parsed.val) \cup {result} = shape.isotopes

C14_Witness ==
    /\ pc = "element"
    /\ result # NoResult
    /\ ~parsed.isNone
    /\ Cardinality(shape.isotopes) = 3
    /\ Tied(result)
    /\ shape.order[2] = result


(* C15: with the absolute scale the rows isopattern returns are ordered by *)
(* non-decreasing mass, the mass being the m/z value after the charge      *)
(* conversion when charge # 0, for every compound, charge, abundance_limit *)
(* and max_iter.                                                           *)
C15_AbsoluteSortedByMass ==
    (pc = "returned" /\ scale = "abs") =>
        /\ \A i, j \in 1..Len(result) :
               i < j => RLeq(result[i].mass, result[j].mass)
        /\ \A i \in 1..Len(result) :
               \E k \in 1..Len(Retained) :
                   /\ Retained[k].cnt = result[i].cnt
                   /\ result[i].mass = ToMz(Retained[k].mass, charge)

\* a call with a charge whose rows left the loop in another order than
\* that of their masses
C15_Witness ==
    /\ pc = "returned"
    /\ scale = "abs"
    /\ charge # 0
    /\ Len(result) >= 4
    /\ \E i, j \in 1..Len(Retained) :
           i < j /\ Retained[j].mass < Retained[i].mass


C17_AbundanceIsMultinomial ==
    (pc \in {"loop", "returned"} /\ PositiveCounts) =>
        \A i \in 1..Len(peaks) :
            peaks[i].abundance = ExactAbundance(compound, peaks[i].cnt)

\* a row with three substitutions of one isotope next to a row whose two
\* substitutions are of different isotopes
C17_Witness ==
    /\ pc = "loop"
    /\ PositiveCounts
    /\ \E i, j \in 1..Len(peaks) :
           /\ \E sym \in Cols(compound) :
                  /\ peaks[i].cnt[sym] >= 3
                  /\ sym \notin {compound.monoisos[k].symbol :
                                    k \in 1..Len(compound.monoisos)}
           /\ peaks[i].abundance = ExactAbundance(compound, peaks[i].cnt)
           /\ peaks[j].generation = 2
           /\ \A sym \in Cols(compound) : peaks[j].cnt[sym] <= 1


(* C18: the pattern isopattern returns holds each isotopologue at most     *)
(* once: no two returned rows have the same isotope counts, for every      *)
(* abundance_limit and every max_iter, max_iter = 0 and runs that the      *)
(* max_iter valve ends right after a fan-out included.                     *)
C18_NoIsotopologueTwice ==
    pc = "returned" =>
        \A i, j \in 1..Len(result) : i # j => result[i].cnt # result[j].cnt


\* the rows of the current generation that are still active (stop = 0)
ActiveRows == {i \in 1..Len(peaks) : peaks[i].generation = iteration /\ peaks[i].stop = 0}

NonMonoSymbols == {compound.nonmonoisos[k].symbol : k \in 1..Len(compound.nonmonoisos)}

\* the number of substitutions that lead to the isotope counts cnt
Substitutions(cnt) ==
    SeqSum([k \in 1..Len(compound.nonmonoisos) |-> cnt[compound.nonmonoisos[k].symbol]])

\* the isotope counts one substitution of sym before cnt
ParentCounts(cnt, sym) ==
    [cnt EXCEPT ![sym] = @ - 1, ![MonoisotopeOf[sym].symbol] = @ + 1]

\* every substituted row below the limit is terminal, and every row of two
\* or more substitutions has a parent row that was not below the limit
TerminalBelowLimit ==
    \A i \in 1..Len(peaks) :
        /\ (peaks[i].generation >= 1 /\ RLess(peaks[i].abundance, abundance_limit))
               => peaks[i].stop = 1
        /\ peaks[i].generation >= 2 =>
               \E k \in 1..Len(peaks), sym \in NonMonoSymbols :
                   /\ peaks[i].cnt[sym] >= 1
                   /\ peaks[k].cnt = ParentCounts(peaks[i].cnt, sym)
                   /\ peaks[k].generation = peaks[i].generation - 1
                   /\ ~RLess(peaks[k].abundance, abundance_limit)

\* once a pass has run, every single substitution of the root is in the
\* frame, whatever the abundance of the root
RootExpanded ==
    iteration >= 1 =>
        \A sym \in NonMonoSymbols :
            RootCounts(compound)[MonoisotopeOf[sym].symbol] # 0 =>
                \E i \in 1..Len(peaks) :
                    /\ peaks[i].generation = 1
                    /\ peaks[i].cnt = [RootCounts(compound) EXCEPT
                                          ![sym] = @ + 1,
                                          ![MonoisotopeOf[sym].symbol] = @ - 1]

\* the returned pattern holds every substituted row of the frame, and each
\* of its rows of two or more substitutions has a parent that was not
\* below the limit
ReturnedKeepsTerminal ==
    /\ \A i \in 1..Len(peaks) :
           peaks[i].generation >= 1 =>
               \E j \in 1..Len(result) : result[j].cnt = peaks[i].cnt
    /\ \A j \in 1..Len(result) :
           Substitutions(result[j].cnt) >= 2 =>
               \E k \in 1..Len(peaks), sym \in NonMonoSymbols :
                   /\ result[j].cnt[sym] >= 1
                   /\ peaks[k].cnt = ParentCounts(result[j].cnt, sym)
                   /\ ~RLess(peaks[k].abundance, abundance_limit)

ElementAtoms(cnt, k) ==
    cnt[compound.monoisos[k].symbol]
    + SeqSum([j \in 1..Len(compound.nonmonoisos) |->
                 IF MonoisotopeOf[compound.nonmonoisos[j].symbol] = compound.monoisos[k]
                 THEN cnt[compound.nonmonoisos[j].symbol] ELSE 0])

\* row holds no negative count and, for each element, as many atoms as the
\* compound
Conserved(row) ==
    /\ \A sym \in Cols(compound) : row.cnt[sym] >= 0
    /\ \A k \in 1..Len(compound.monoisos) :
           ElementAtoms(row.cnt, k) = compound.element_count[k][2]

\* what the next pass makes of a row that has a target and is not terminal:
\* no row when no atom of the monoisotope is left, else the row with one atom
\* moved from the monoisotope to the target and every other count as it was
SubstitutionMovesOneAtom(row) ==
    (row.stop = 0 /\ row.noniso # NoTarget) =>
        LET mono == MonoisotopeOf[row.noniso].symbol
            out  == isotope_permutation(compound, row, abundance_limit)
        IN  IF row.cnt[mono] = 0 THEN out.isNone
            ELSE /\ ~out.isNone
                 /\ out.val.cnt[row.noniso] = row.cnt[row.noniso] + 1
                 /\ out.val.cnt[mono] = row.cnt[mono] - 1
                 /\ \A sym \in Cols(compound) \ {mono, row.noniso} :
                        out.val.cnt[sym] = row.cnt[sym]

(* C21: in every row of the frame, in every state of the search, no isotope *)
(* count is negative and each element has as many atoms (monoisotope plus   *)
(* other isotopes) as the compound; a substitution adds 1 to the target's   *)
(* count, takes 1 from the count of the target's monoisotope and changes no *)
(* other count; a substitution with no monoisotope atom left gives no row.  *)
C21_AtomConservation ==
    pc \in {"loop", "returned"} =>
        \A i \in 1..Len(peaks) :
            Conserved(peaks[i]) /\ SubstitutionMovesOneAtom(peaks[i])


\* the sum over the isotope columns of count times isotope mass
MassOfCounts(cnt) ==
    LET isos == compound.nonmonoisos \o compound.monoisos
    IN  SeqSum([k \in 1..Len(isos) |-> cnt[isos[k].symbol] * isos[k].mass])

(* C22: in every state of the search, before the conversion to m/z, the    *)
(* mass of each row of the frame is the sum over all isotope columns       *)
(* (monoisotopes and non-monoisotopes) of the row's count times the        *)
(* isotope's mass, and its generation is the number of non-monoisotope     *)
(* atoms in the row.                                                       *)
C22_MassAndGeneration ==
    pc \in {"loop", "returned"} =>
        \A i \in 1..Len(peaks) :
            /\ peaks[i].mass = MassOfCounts(peaks[i].cnt)
            /\ peaks[i].generation = Substitutions(peaks[i].cnt)

\* the frame holds a row of three substitutions, two of them of one isotope
\* and the third of an isotope of another element
C22_Witness ==
    /\ pc = "loop"
    /\ \E i \in 1..Len(peaks) :
           /\ peaks[i].generation = 3
           /\ \E s, t \in NonMonoSymbols :
                  /\ MonoisotopeOf[s] # MonoisotopeOf[t]
                  /\ peaks[i].cnt[s] = 2
                  /\ peaks[i].cnt[t] = 1


(* C23: constructing a Peak never raises on account of its formula string: *)
(* when the string cannot be turned into a Compound (malformed count,      *)
(* element not in the registry, no atoms) the Peak is created with         *)
(* formula = None, and when it can, with formula = the parsed Compound.    *)
C23_PeakIgnoresInvalidFormula ==
    (pc \in {"created", "raised"} /\ ~shape.formula_str.isNone) =>
        /\ pc = "created"
        /\ raised = "none"
        /\ parsed = IF from_str(shape.formula_str.val).exc = "none"
                    THEN Some(from_str(shape.formula_str.val).c)
                    ELSE None


(* C24: on every formula made of bare element tokens with optional counts  *)
(* (no parentheses, leading multiplier, abbreviation or trailing charge),  *)
(* an element occurring more than once included, str_to_dict (the parser   *)
(* of Compound.from_str) and get_element_count give the same atom counts.  *)
C24_ParsersAgree ==
    pc = "both" =>
        /\ result.exc = "none"
        /\ KeySet(result.d) = KeySet(parsed.val)
        /\ \A el \in KeySet(parsed.val) :
               DictGet(result.d, el, 0) = DictGet(parsed.val, el, 0)

==========================================================================
